---- MODULE Spec2Model ----
(***************************************************************************)
(* Adaptive batch insert of db-loader: adaptive_batch_insert_with_ewma in  *)
(* src/data_loader/core.py, the loop that sends a table to the store in    *)
(* bulk statements whose size follows the measured duration.               *)
(*                                                                         *)
(* Time is counted in milliseconds, throughput (rows per second) is an     *)
(* exact fraction <<numerator, denominator>>, and a string (the starting   *)
(* batch argument, an error message) is a sequence of characters or words. *)
(***************************************************************************)
EXTENDS Integers, Sequences, FiniteSets, TLC

VARIABLES
    starting_batch,        \* the argument, e.g. <<"=", "5">>
    min_batch,             \* argument (default 5000)
    max_batch,             \* argument (default 150000)
    df_columns,            \* list(df.columns), each name a sequence of characters
    total_rows,            \* len(df)
    bad_rows,              \* rows the store rejects whenever they are submitted
    pc,                    \* "start", "loop", "done", "fatal"
    fixed_batch,
    batch,
    sent,
    ewma_rows_per_sec,
    table,                 \* the store: how many times each source row was committed
    consecutive_failures,  \* observer: failed bulk attempts in a row at one position
    last_failed_position,  \* observer: position of the last failed bulk attempt
    batches,               \* observer: number of successful bulk statements
    last,                  \* observer: the last transition of the loop
    enc,                   \* one column and one cell through the statement builder
    pipe                   \* run_pipeline: phase, current table, the store

vars == <<starting_batch, min_batch, max_batch, df_columns, total_rows, bad_rows, pc,
          fixed_batch, batch, sent, ewma_rows_per_sec, table,
          consecutive_failures, last_failed_position, batches, last, enc, pipe>>

-----------------------------------------------------------------------------
(* Bounds of the model *)

MaxTotalRows == 3
MaxStartingBatch == 5
MaxMinBatch == 2
SmallMaxBatch == 4
MaxBadRows == 1
MaxNameLen == 2
MaxCellLen == 2
MaxTables == 2

-----------------------------------------------------------------------------
(* Arithmetic helpers *)

Min(a, b) == IF a <= b THEN a ELSE b

Max(a, b) == IF a >= b THEN a ELSE b

RECURSIVE Gcd(_, _)
Gcd(a, b) == IF b = 0 THEN a ELSE Gcd(b, a % b)

\* A fraction in lowest terms (n >= 0, d > 0).
Frac(n, d) == LET g == Gcd(n, d) IN <<n \div g, d \div g>>

FracAdd(p, q) == Frac(p[1] * q[2] + q[1] * p[2], p[2] * q[2])

FracMul(p, q) == Frac(p[1] * q[1], p[2] * q[2])

Zero == <<0, 1>>

\* int(n * f) for n >= 0 and a positive factor f: the product truncated.
IntTimes(n, f) == (n * f[1]) \div f[2]

-----------------------------------------------------------------------------
(* Program constants *)

default_min_batch == 5000

default_max_batch == 150000

target_ms == 3000

max_retries == 5

inc_factor == <<12, 10>>

dec_factor == <<8, 10>>

ewma_alpha == <<1, 4>>

\* 1.0 - ewma_alpha
one_minus_alpha == <<ewma_alpha[2] - ewma_alpha[1], ewma_alpha[2]>>

\* elapsed < fast_threshold, with fast_threshold = 0.75 * target_seconds
IsFast(elapsed) == elapsed * 100 < 75 * target_ms

\* elapsed > slow_threshold, with slow_threshold = 1.50 * target_seconds
IsSlow(elapsed) == elapsed * 100 > 150 * target_ms

-----------------------------------------------------------------------------
(* Parsing the starting batch: startswith("="), lstrip("="), int() *)

Digits == <<"0", "1", "2", "3", "4", "5", "6", "7", "8", "9">>

DigitValue(c) == (CHOOSE i \in 1..10 : Digits[i] = c) - 1

StartsWithEq(s) == Len(s) > 0 /\ s[1] = "="

RECURSIVE LStripEq(_)
LStripEq(s) == IF Len(s) > 0 /\ s[1] = "=" THEN LStripEq(Tail(s)) ELSE s

RECURSIVE ParseInt(_)
ParseInt(s) ==
    IF Len(s) = 0 THEN 0
    ELSE 10 * ParseInt(SubSeq(s, 1, Len(s) - 1)) + DigitValue(s[Len(s)])

\* The decimal text of n, as a user types it on the command line.
RECURSIVE Decimal(_)
Decimal(n) ==
    IF n < 10 THEN <<Digits[n + 1]>>
    ELSE Decimal(n \div 10) \o <<Digits[(n % 10) + 1]>>

StartingBatches ==
    { prefix \o Decimal(n) : prefix \in {<<>>, <<"=">>}, n \in 1..MaxStartingBatch }

\* Every whole number the command line can give, zero included.
AnyStartingBatches ==
    { prefix \o Decimal(n) : prefix \in {<<>>, <<"=">>}, n \in 0..MaxStartingBatch }

\* Starting batches of the order of the defaults (the default itself is 10000).
LargeStartingBatches == { Decimal(n) : n \in {1000, 10000, 20010, 149000} }

-----------------------------------------------------------------------------
(* Error messages of the store, and their classification *)

ErrorMessages ==
    { <<"Invalid", "data", "format">>,
      <<"Connection", "Timeout">>,
      <<"request", "size", "exceeded">> }

\* The ValueError of build_openjson_with_clause.
EmptyClauseMessage ==
    <<"Empty", "WITH", "clause", "generated", "for", "OPENJSON;",
      "check", "dtype", "configuration.">>

\* str.lower() on one word
LowerWord(w) ==
    CASE w = "Invalid" -> "invalid"
      [] w = "Connection" -> "connection"
      [] w = "Timeout" -> "timeout"
      [] w = "Empty" -> "empty"
      [] w = "WITH" -> "with"
      [] w = "OPENJSON;" -> "openjson;"
      [] OTHER -> w

Lower(msg) == [i \in 1..Len(msg) |-> LowerWord(msg[i])]

\* keyword in err_msg
Contains(msg, keyword) ==
    \E i \in 1..Len(msg) :
        /\ i + Len(keyword) - 1 <= Len(msg)
        /\ SubSeq(msg, i, i + Len(keyword) - 1) = keyword

Keywords == { <<"timeout">>, <<"request", "size">>, <<"payload", "too", "large">> }

IsResourceError(e) == \E k \in Keywords : Contains(Lower(e), k)

-----------------------------------------------------------------------------
(* The steps of the loop *)

Take(b, remaining) == Min(b, remaining)

\* Mutant: the empty column list is not detected.
WithClauseNeverRaises(cols) == FALSE

\* "if not lines: raise ValueError", reached before conn.execute
WithClauseRaises(cols) == Len(cols) = 0

\* Mutant: the slice is taken from the first row, whatever the cursor.
BatchRowsFromStart(s, t, total) == { r \in 0..(total - 1) : r < t }

\* df.iloc[sent : sent + take]
BatchRows(s, t, total) == { r \in 0..(total - 1) : s <= r /\ r < s + t }

Shrink(b, mn) == Max(IntTimes(b, dec_factor), mn)

\* Mutant: the error-specific second reduction is forgotten.
BatchAfterFailureOnce(b, mn, e) == Shrink(b, mn)

BatchAfterFailure(b, mn, e) ==
    LET once == Shrink(b, mn)
    IN  IF IsResourceError(e) THEN Shrink(once, mn) ELSE once

\* max(end_time - start_time, 0.001)
FlooredElapsed(measured) == Max(measured, 1)

RowsPerSec(t, elapsed) == Frac(t * 1000, elapsed)

\* Mutant: the weights of the new sample and of the history are swapped.
EwmaUpdateSwapped(ewma, x) ==
    IF ewma = Zero THEN x
    ELSE FracAdd(FracMul(one_minus_alpha, x), FracMul(ewma_alpha, ewma))

EwmaUpdate(ewma, x) ==
    IF ewma = Zero THEN x
    ELSE FracAdd(FracMul(ewma_alpha, x), FracMul(one_minus_alpha, ewma))

\* Mutant: a failed segment is skipped instead of retried.
SentAfterFailureSkip(s, t) == s + t

\* "Do not advance 'sent'; retry this segment"
SentAfterFailure(s, t) == s

\* Mutant: the cursor skips one row past the batch.
SentAfterSuccessSkip(s, t) == s + t + 1

SentAfterSuccess(s, t) == s + t

\* Mutant: the growth of a fast batch is not capped at max_batch.
BatchAfterSuccessUncapped(b, elapsed, fixed, mn, mx) ==
    IF fixed THEN b
    ELSE IF IsFast(elapsed) THEN IntTimes(b, inc_factor)
    ELSE IF IsSlow(elapsed) THEN Max(IntTimes(b, dec_factor), mn)
    ELSE Min(b + Max(b \div 20, 1000), mx)

\* Mutant: a slow batch is not floored at min_batch.
BatchAfterSuccessUnfloored(b, elapsed, fixed, mn, mx) ==
    IF fixed THEN b
    ELSE IF IsFast(elapsed) THEN Min(IntTimes(b, inc_factor), mx)
    ELSE IF IsSlow(elapsed) THEN IntTimes(b, dec_factor)
    ELSE Min(b + Max(b \div 20, 1000), mx)

\* Mutant: a batch that took exactly slow_threshold counts as slow.
BatchAfterSuccessSlowAtThreshold(b, elapsed, fixed, mn, mx) ==
    IF fixed THEN b
    ELSE IF IsFast(elapsed) THEN Min(IntTimes(b, inc_factor), mx)
    ELSE IF IsSlow(elapsed + 1) THEN Max(IntTimes(b, dec_factor), mn)
    ELSE Min(b + Max(b \div 20, 1000), mx)

\* Mutant: the fixed flag is not consulted.
BatchAfterSuccessIgnoresFixed(b, elapsed, fixed, mn, mx) ==
    IF IsFast(elapsed) THEN Min(IntTimes(b, inc_factor), mx)
    ELSE IF IsSlow(elapsed) THEN Max(IntTimes(b, dec_factor), mn)
    ELSE Min(b + Max(b \div 20, 1000), mx)

BatchAfterSuccess(b, elapsed, fixed, mn, mx) ==
    IF fixed THEN b
    ELSE IF IsFast(elapsed) THEN Min(IntTimes(b, inc_factor), mx)
    ELSE IF IsSlow(elapsed) THEN Max(IntTimes(b, dec_factor), mn)
    ELSE Min(b + Max(b \div 20, 1000), mx)

-----------------------------------------------------------------------------
(* Observers *)

NoStep == [kind |-> "none", start |-> 0, take |-> 0, batch |-> 0,
           err |-> <<>>, elapsed |-> 0, ewma |-> Zero, submitted |-> FALSE]

\* Outside the statement builder and outside run_pipeline.
EncIdle == [pc |-> "idle"]

PipeIdle == [phase |-> "idle"]

\* conn.execute: an insert statement for the table of the pipeline has reached the
\* store (there is no such table when the loop is called outside run_pipeline).
Submitted(p) ==
    IF p.phase = "idle" THEN p ELSE [p EXCEPT !.inserted[p.tbl] = TRUE]

\* Mutant: the rows of a batch stay in an open transaction.
CommittedAtEnd(p, take) == p

\* conn.commit right after conn.execute: the rows of the batch are visible.
Committed(p, take) ==
    IF p.phase = "idle" THEN p ELSE [p EXCEPT !.visible[p.tbl] = @ + take]

\* Column lists of the frame: none, or one column "id".
ColumnLists == { <<>>, << <<"i", "d">> >> }

\* "Increment consecutive_failures if same position, reset to 1 if new position"
FailuresAfterFailure(count, lastpos, pos) ==
    IF pos = lastpos THEN Min(count + 1, max_retries + 1) ELSE 1

-----------------------------------------------------------------------------
(* Measured durations of a successful statement, in milliseconds *)

ElapsedMs == {0, 2250, 4500, 5000}

-----------------------------------------------------------------------------

Init ==
    /\ starting_batch \in StartingBatches
    /\ min_batch \in 1..MaxMinBatch
    /\ max_batch \in {SmallMaxBatch, default_max_batch}
    /\ df_columns \in ColumnLists
    /\ total_rows \in 0..MaxTotalRows
    /\ bad_rows \in { s \in SUBSET (0..(total_rows - 1)) : Cardinality(s) <= MaxBadRows }
    /\ pc = "start"
    /\ fixed_batch = FALSE
    /\ batch = 0
    /\ sent = 0
    /\ ewma_rows_per_sec = Zero
    /\ table = [r \in 0..(total_rows - 1) |-> 0]
    /\ consecutive_failures = 0
    /\ last_failed_position = -1
    /\ batches = 0
    /\ last = NoStep
    /\ enc = EncIdle
    /\ pipe = PipeIdle

\* Lines 273-286: the cursor, the parsed starting batch, the smoothed throughput.
Parse ==
    /\ pc = "start"
    /\ pc' = "loop"
    /\ fixed_batch' = StartsWithEq(starting_batch)
    /\ batch' = ParseInt(LStripEq(starting_batch))
    /\ sent' = 0
    /\ ewma_rows_per_sec' = Zero
    /\ last' = [NoStep EXCEPT !.kind = "parse"]
    /\ UNCHANGED <<starting_batch, min_batch, max_batch, df_columns, total_rows,
                   bad_rows, table, consecutive_failures, last_failed_position,
                   batches, enc, pipe>>

\* Lines 304-324: the except branch, for the error e of an attempt that did
\* (submitted) or did not reach conn.execute.
Except(e, submitted) ==
    /\ LET take == Take(batch, total_rows - sent)
       IN  /\ batch' = BatchAfterFailure(batch, min_batch, e)
           /\ consecutive_failures' =
                  FailuresAfterFailure(consecutive_failures, last_failed_position, sent)
           /\ last_failed_position' = sent
           /\ sent' = SentAfterFailure(sent, take)
           /\ last' = [NoStep EXCEPT !.kind = "fail", !.start = sent, !.take = take,
                                     !.batch = batch, !.err = e,
                                     !.ewma = ewma_rows_per_sec,
                                     !.submitted = submitted]
    /\ pipe' = (IF submitted THEN Submitted(pipe) ELSE pipe)
    /\ UNCHANGED <<starting_batch, min_batch, max_batch, df_columns, total_rows,
                   bad_rows, pc, fixed_batch, ewma_rows_per_sec, table, batches,
                   enc>>

\* Lines 293-324: the bulk statement raises; shrink and retry the same segment.
BulkFail(e) ==
    /\ pc = "loop"
    /\ sent < total_rows
    /\ ~WithClauseRaises(df_columns)
    /\ Except(e, TRUE)

\* Lines 195-198, 239 and 293-324: the frame has no column, the statement builder
\* raises before anything is sent to the store; shrink and retry the same segment.
EncodeFail ==
    /\ pc = "loop"
    /\ sent < total_rows
    /\ WithClauseRaises(df_columns)
    /\ Except(EmptyClauseMessage, FALSE)

\* Lines 293-303 and 326-368: the bulk statement commits; measure, advance, resize.
BulkOk(measured) ==
    /\ pc = "loop"
    /\ sent < total_rows
    /\ LET take == Take(batch, total_rows - sent)
           rows == BatchRows(sent, take, total_rows)
           elapsed == FlooredElapsed(measured)
       IN  /\ ~WithClauseRaises(df_columns)
           /\ rows \cap bad_rows = {}
           /\ table' = [r \in 0..(total_rows - 1) |->
                           IF r \in rows THEN table[r] + 1 ELSE table[r]]
           /\ ewma_rows_per_sec' =
                  EwmaUpdate(ewma_rows_per_sec, RowsPerSec(take, elapsed))
           /\ sent' = SentAfterSuccess(sent, take)
           /\ batch' = BatchAfterSuccess(batch, elapsed, fixed_batch, min_batch, max_batch)
           /\ last' = [NoStep EXCEPT !.kind = "ok", !.start = sent, !.take = take,
                                     !.batch = batch, !.elapsed = elapsed,
                                     !.ewma = ewma_rows_per_sec,
                                     !.submitted = TRUE]
           /\ pipe' = Committed(Submitted(pipe), take)
    /\ consecutive_failures' = 0
    /\ batches' = Min(batches + 1, MaxTotalRows + 1)
    /\ UNCHANGED <<starting_batch, min_batch, max_batch, df_columns, total_rows,
                   bad_rows, pc, fixed_batch, last_failed_position, enc>>

\* Line 293: the loop condition is false, the function returns.
LoopExit ==
    /\ pc = "loop"
    /\ ~(sent < total_rows)
    /\ pc' = "done"
    /\ UNCHANGED <<starting_batch, min_batch, max_batch, df_columns, total_rows,
                   bad_rows, fixed_batch, batch, sent, ewma_rows_per_sec, table,
                   consecutive_failures, last_failed_position, batches, last,
                   enc, pipe>>

Attempt ==
    \/ \E e \in ErrorMessages : BulkFail(e)
    \/ EncodeFail
    \/ \E measured \in ElapsedMs : BulkOk(measured)

Next ==
    \/ Parse
    \/ Attempt
    \/ LoopExit

Spec == Init /\ [][Next]_vars

\* The loop is sequential code: it keeps running while a step is possible.
FairSpec == Spec /\ WF_vars(Next)

\* The call with the default min_batch and max_batch and a starting batch of that order.
DefaultsInit ==
    /\ starting_batch \in LargeStartingBatches
    /\ min_batch = default_min_batch
    /\ max_batch = default_max_batch
    /\ df_columns \in ColumnLists
    /\ total_rows \in 1..MaxTotalRows
    /\ bad_rows = {}
    /\ pc = "start"
    /\ fixed_batch = FALSE
    /\ batch = 0
    /\ sent = 0
    /\ ewma_rows_per_sec = Zero
    /\ table = [r \in 0..(total_rows - 1) |-> 0]
    /\ consecutive_failures = 0
    /\ last_failed_position = -1
    /\ batches = 0
    /\ last = NoStep
    /\ enc = EncIdle
    /\ pipe = PipeIdle

DefaultsSpec == DefaultsInit /\ [][Next]_vars

\* The call with any starting batch the command line accepts.
AnyBatchInit ==
    /\ starting_batch \in AnyStartingBatches
    /\ min_batch \in 1..MaxMinBatch
    /\ max_batch \in {SmallMaxBatch, default_max_batch}
    /\ df_columns \in ColumnLists
    /\ total_rows \in 0..MaxTotalRows
    /\ bad_rows = {}
    /\ pc = "start"
    /\ fixed_batch = FALSE
    /\ batch = 0
    /\ sent = 0
    /\ ewma_rows_per_sec = Zero
    /\ table = [r \in 0..(total_rows - 1) |-> 0]
    /\ consecutive_failures = 0
    /\ last_failed_position = -1
    /\ batches = 0
    /\ last = NoStep
    /\ enc = EncIdle
    /\ pipe = PipeIdle

AnyBatchSpec == AnyBatchInit /\ [][Next]_vars

-----------------------------------------------------------------------------
(* The statement builder: insert_json_batch_with_compression called with   *)
(* use_compression=False on a frame of one column and one row, and         *)
(* build_openjson_with_clause. Texts are sequences of characters; a type   *)
(* name of the store is one token.                                         *)

MAX_FIXED_LENGTH == 4000

loop_vars == <<starting_batch, min_batch, max_batch, df_columns, total_rows,
               bad_rows, pc, fixed_batch, batch, sent, ewma_rows_per_sec, table,
               consecutive_failures, last_failed_position, batches, last>>

\* No call of adaptive_batch_insert_with_ewma is in progress.
LoopIdle ==
    /\ starting_batch = <<>>
    /\ min_batch = 0
    /\ max_batch = 0
    /\ df_columns = <<>>
    /\ total_rows = 0
    /\ bad_rows = {}
    /\ pc = "idle"
    /\ fixed_batch = FALSE
    /\ batch = 0
    /\ sent = 0
    /\ ewma_rows_per_sec = Zero
    /\ table = <<>>
    /\ consecutive_failures = 0
    /\ last_failed_position = -1
    /\ batches = 0
    /\ last = NoStep

Strings(chars, n) == UNION { [1..k -> chars] : k \in 0..n }

\* Column names and cell values, over the characters the statement syntax reads.
ColumnNames == Strings({"a", "]", "'"}, MaxNameLen) \ {<<>>}

\* A cell is a text, a whole number or a boolean.
CellValues ==
    { [kind |-> "text", value |-> v] : v \in Strings({"a", "'", "\""}, MaxCellLen) }
        \cup { [kind |-> "number", value |-> 12] }
        \cup { [kind |-> "boolean", value |-> b] : b \in BOOLEAN }

\* str.replace of one character c by the text r
RECURSIVE Replace(_, _, _)
Replace(s, c, r) ==
    IF Len(s) = 0 THEN <<>>
    ELSE (IF s[1] = c THEN r ELSE <<s[1]>>) \o Replace(Tail(s), c, r)

\* A JSON string as to_json writes it: quotes and backslashes are escaped.
RECURSIVE JsonEscape(_)
JsonEscape(s) ==
    IF Len(s) = 0 THEN <<>>
    ELSE (IF s[1] \in {"\"", "\\"} THEN <<"\\", s[1]>> ELSE <<s[1]>>)
             \o JsonEscape(Tail(s))

JsonString(s) == <<"\"">> \o JsonEscape(s) \o <<"\"">>

\* df.to_json(orient="records") of the frame of one column and one row
df_to_json_array(col, cell) ==
    <<"[", "{">> \o JsonString(col) \o <<":">>
        \o (CASE cell.kind = "text" -> JsonString(cell.value)
               [] cell.kind = "number" -> Decimal(cell.value)
               [] cell.kind = "boolean" ->
                     IF cell.value THEN <<"t", "r", "u", "e">>
                     ELSE <<"f", "a", "l", "s", "e">>)
        \o <<"}", "]">>

\* Mutant: the payload is embedded as it is.
EscapedJsonRaw(json_data) == json_data

\* json_data.replace("'", "''")
EscapedJson(json_data) == Replace(json_data, "'", <<"'", "'">>)

\* N'{escaped_json}'
Literal(json_data) == <<"N", "'">> \o EscapedJson(json_data) \o <<"'">>

\* col.replace("]", "]]")
EscapedCol(col) == Replace(col, "]", <<"]", "]">>)

\* Types a configuration file gives to a column of such cells: the ones
\* coerce_pandas_dtypes leaves the values with, and one it does not know.
ConfiguredTypes(cell) ==
    CASE cell.kind = "text" -> {"TEXT", "String", "bool"}
      [] cell.kind = "number" -> {"int", "Decimal", "bool"}
      [] cell.kind = "boolean" -> {"bool"}

\* str.upper()
Upper(t) ==
    CASE t = "int" -> "INT"
      [] t = "Decimal" -> "DECIMAL"
      [] t = "String" -> "STRING"
      [] t = "bool" -> "BOOL"
      [] OTHER -> t

OPENJSON_SQL_TYPE_MAP ==
    [t \in {"INT", "INTEGER", "FLOAT", "DOUBLE", "NUMERIC", "DECIMAL", "TEXT",
            "STRING", "DATE", "DATETIME", "TIMESTAMP"} |->
        CASE t \in {"INT", "INTEGER"} -> <<"INT">>
          [] t \in {"FLOAT", "DOUBLE"} -> <<"FLOAT">>
          [] t \in {"NUMERIC", "DECIMAL"} -> <<"NUMERIC(18,4)">>
          [] t \in {"TEXT", "STRING"} -> <<"NVARCHAR(MAX)">>
          [] t = "DATE" -> <<"DATE">>
          [] t \in {"DATETIME", "TIMESTAMP"} -> <<"DATETIME2">>]

\* dict.get(k, default)
Get(d, k, default) == IF k \in DOMAIN d THEN d[k] ELSE default

\* NVARCHAR(size) up to the fixed-length ceiling, NVARCHAR(MAX) above it
SizedText(size) ==
    IF size <= MAX_FIXED_LENGTH THEN <<"NVARCHAR(">> \o Decimal(size) \o <<")">>
    ELSE <<"NVARCHAR(MAX)">>

\* The type of one column in the WITH clause.
SqlType(dtypes_cfg, col, max_text_lens) ==
    IF col \in DOMAIN dtypes_cfg
    THEN LET dtype == Upper(dtypes_cfg[col])
         IN  IF dtype \in DOMAIN OPENJSON_SQL_TYPE_MAP
             THEN OPENJSON_SQL_TYPE_MAP[dtype]
             ELSE SizedText(Get(max_text_lens, col, 1))
    ELSE SizedText(Get(max_text_lens, col, 1))

\* f"[{escaped_col}] {sql_type} '$.{col}'"
WithEntry(col, sql_type) ==
    <<"[">> \o EscapedCol(col) \o <<"]", " ">> \o sql_type
            \o <<" ", "'", "$", ".">> \o col \o <<"'">>

\* A dictionary with no key, or with the one key col.
Dicts(col, values) == { <<>> } \cup { [c \in {col} |-> v] : v \in values }

\* infer_max_text_lengths: the longest text of the column, for a text column only.
ObservedLengths == {MaxCellLen, MAX_FIXED_LENGTH, MAX_FIXED_LENGTH + 1}

MaxTextLens(col, cell) ==
    IF cell.kind = "text" THEN Dicts(col, ObservedLengths) \ { <<>> } ELSE { <<>> }

EncInit ==
    /\ LoopIdle
    /\ pipe = PipeIdle
    /\ \E col \in ColumnNames, cell \in CellValues :
          \E cfg \in Dicts(col, ConfiguredTypes(cell)), lens \in MaxTextLens(col, cell) :
             enc = [pc |-> "call", col |-> col, cell |-> cell, dtypes_cfg |-> cfg,
                    max_text_lens |-> lens, json_data |-> <<>>, literal |-> <<>>,
                    sql_type |-> <<>>, with_clause |-> <<>>]

\* Lines 216 and 231-236: serialize the frame and embed it as a literal.
EmbedPayload ==
    /\ enc.pc = "call"
    /\ LET json_data == df_to_json_array(enc.col, enc.cell)
       IN  enc' = [enc EXCEPT !.pc = "payload", !.json_data = json_data,
                              !.literal = Literal(json_data)]
    /\ UNCHANGED <<loop_vars, pipe>>

\* Lines 238-239: the WITH clause of the one column.
BuildWithClause ==
    /\ enc.pc = "payload"
    /\ LET sql_type == SqlType(enc.dtypes_cfg, enc.col, enc.max_text_lens)
       IN  enc' = [enc EXCEPT !.pc = "built", !.sql_type = sql_type,
                              !.with_clause = WithEntry(enc.col, sql_type)]
    /\ UNCHANGED <<loop_vars, pipe>>

EncNext ==
    \/ EmbedPayload
    \/ BuildWithClause

EncoderSpec == EncInit /\ [][EncNext]_vars

-----------------------------------------------------------------------------
(* run_pipeline: phase 1 declares every table on one connection and        *)
(* commits, phase 2 loads every table on a second connection through       *)
(* adaptive_batch_insert_with_ewma with the default min_batch and          *)
(* max_batch.                                                              *)

\* The starting batch of the command line: fixed, small, the default.
PipelineBatches == { <<"=", "1">>, <<"2">>, Decimal(10000) }

PipeInit ==
    /\ LoopIdle
    /\ enc = EncIdle
    /\ \E n \in 1..MaxTables :
          \E rows \in [1..n -> 0..MaxTotalRows], supported \in [1..n -> BOOLEAN] :
             \E default_batch \in PipelineBatches :
                pipe = [phase |-> "create", tbl |-> 1, rows |-> rows,
                        supported |-> supported, default_batch |-> default_batch,
                        declared |-> [t \in 1..n |-> 0], ddl_committed |-> FALSE,
                        inserted |-> [t \in 1..n |-> FALSE],
                        visible |-> [t \in 1..n |-> 0], calling |-> FALSE]

\* Mutant: phase 1 stops after the first table.
TablesLeftFirstOnly(p) == p.tbl <= 1

\* "for tbl in tables": a table is left to process.
TablesLeft(p) == p.tbl <= Len(p.rows)

\* Lines 491-525: create_table_if_not_exists for the next table.
CreateTable ==
    /\ pipe.phase = "create"
    /\ TablesLeft(pipe)
    /\ pipe.supported[pipe.tbl]
    /\ pipe' = [pipe EXCEPT !.declared[pipe.tbl] = @ + 1, !.tbl = @ + 1]
    /\ UNCHANGED <<loop_vars, enc>>

\* Lines 516-517: an unsupported source_type raises; the connection closes
\* without a commit.
CreateRaises ==
    /\ pipe.phase = "create"
    /\ TablesLeft(pipe)
    /\ ~pipe.supported[pipe.tbl]
    /\ pipe' = [pipe EXCEPT !.phase = "aborted"]
    /\ UNCHANGED <<loop_vars, enc>>

\* Line 527: conn.commit after the last declaration; phase 2 begins.
CommitTables ==
    /\ pipe.phase = "create"
    /\ ~TablesLeft(pipe)
    /\ pipe' = [pipe EXCEPT !.phase = "insert", !.ddl_committed = TRUE, !.tbl = 1]
    /\ UNCHANGED <<loop_vars, enc>>

\* Lines 563-565: a table without rows is skipped.
SkipEmpty ==
    /\ pipe.phase = "insert"
    /\ ~pipe.calling
    /\ TablesLeft(pipe)
    /\ pipe.rows[pipe.tbl] = 0
    /\ pipe' = [pipe EXCEPT !.tbl = @ + 1]
    /\ UNCHANGED <<loop_vars, enc>>

\* Lines 573-575: the call of adaptive_batch_insert_with_ewma for the table.
BeginInsert ==
    /\ pipe.phase = "insert"
    /\ ~pipe.calling
    /\ TablesLeft(pipe)
    /\ pipe.rows[pipe.tbl] > 0
    /\ pipe' = [pipe EXCEPT !.calling = TRUE]
    /\ starting_batch' = pipe.default_batch
    /\ min_batch' = default_min_batch
    /\ max_batch' = default_max_batch
    /\ df_columns' \in ColumnLists \ {<<>>}
    /\ total_rows' = pipe.rows[pipe.tbl]
    /\ bad_rows' = {}
    /\ pc' = "start"
    /\ fixed_batch' = FALSE
    /\ batch' = 0
    /\ sent' = 0
    /\ ewma_rows_per_sec' = Zero
    /\ table' = [r \in 0..(pipe.rows[pipe.tbl] - 1) |-> 0]
    /\ consecutive_failures' = 0
    /\ last_failed_position' = -1
    /\ batches' = 0
    /\ last' = NoStep
    /\ UNCHANGED enc

\* Line 577: the call returned.
EndInsert ==
    /\ pipe.phase = "insert"
    /\ pipe.calling
    /\ pc = "done"
    /\ pipe' = [pipe EXCEPT !.calling = FALSE, !.tbl = @ + 1]
    /\ UNCHANGED <<loop_vars, enc>>

\* A KeyboardInterrupt between two iterations of the loop: "except Exception"
\* does not catch it, the connection closes and the pipeline ends with the error.
Interrupt ==
    /\ pipe.phase = "insert"
    /\ pipe.calling
    /\ pc = "loop"
    /\ pc' = "interrupted"
    /\ pipe' = [pipe EXCEPT !.phase = "aborted"]
    /\ UNCHANGED <<starting_batch, min_batch, max_batch, df_columns, total_rows,
                   bad_rows, fixed_batch, batch, sent, ewma_rows_per_sec, table,
                   consecutive_failures, last_failed_position, batches, last, enc>>

\* Lines 579-581: every table is loaded.
PipelineComplete ==
    /\ pipe.phase = "insert"
    /\ ~pipe.calling
    /\ ~TablesLeft(pipe)
    /\ pipe' = [pipe EXCEPT !.phase = "complete"]
    /\ UNCHANGED <<loop_vars, enc>>

\* The loaders give a frame that has rows at least one column, so the statement
\* builder does not raise here.
PipeNext ==
    \/ CreateTable
    \/ CreateRaises
    \/ CommitTables
    \/ SkipEmpty
    \/ BeginInsert
    \/ Parse
    \/ \E e \in ErrorMessages : BulkFail(e)
    \/ \E measured \in ElapsedMs : BulkOk(measured)
    \/ LoopExit
    \/ EndInsert
    \/ Interrupt
    \/ PipelineComplete

PipelineSpec == PipeInit /\ [][PipeNext]_vars

-----------------------------------------------------------------------------
(* Measures used by the properties *)

RECURSIVE SumTable(_)
SumTable(n) == IF n = 0 THEN 0 ELSE table[n - 1] + SumTable(n - 1)

\* Rows the store holds for this table (a row committed twice counts twice).
Accepted == SumTable(total_rows)

\* The rows of the slice of the last bulk attempt.
LastSlice == BatchRows(last.start, last.take, total_rows)

\* The value the starting batch argument configures.
Configured == ParseInt(LStripEq(starting_batch))

\* Messages of ErrorMessages that name a timeout or a request/payload size limit.
ResourceMessages == { <<"Connection", "Timeout">>, <<"request", "size", "exceeded">> }

-----------------------------------------------------------------------------
(* C1: when the insert phase of a table ends without a fatal error, the   *)
(* rows accepted plus the rows permanently rejected equal total_rows. The  *)
(* loop has no row-level insertion and rejects no row, so the rows the     *)
(* store accepted must be all of them.                                     *)
RowsConserved == pc = "done" => Accepted = total_rows

\* A table of several rows finished in several batches after a failure past row 0.
RowsConservedWitness ==
    /\ pc = "done"
    /\ total_rows >= 3
    /\ batches >= 2
    /\ last_failed_position > 0

(* C2: the insert phase always terminates, whatever the pattern of         *)
(* failures: the loop eventually ends with the cursor at total_rows or     *)
(* with a fatal error.                                                     *)
InsertPhaseTerminates == <>(pc \in {"done", "fatal"})

(* C3: after the starting batch is parsed and after every success or       *)
(* failure transition, min_batch <= batch <= max_batch.                    *)
BatchWithinBounds == pc # "start" => (min_batch <= batch /\ batch <= max_batch)

(* C4: with a fixed starting batch ('=' prefix) the batch size keeps its   *)
(* configured value across every success and every failure transition.     *)
FixedBatchKept == (pc # "start" /\ fixed_batch) => batch = Configured

(* C5: after max_retries consecutive bulk failures at one position the     *)
(* next action for that slice is the row-by-row fallback, never a further  *)
(* bulk attempt.                                                           *)
FallbackAfterMaxRetries ==
    [][(pc = "loop" /\ sent < total_rows /\ consecutive_failures = max_retries)
          => last'.kind = "row_by_row"]_vars

(* C6: when the retries at a position are used up and every row of the     *)
(* failing slice is rejected on its own too, the table is fatally failed   *)
(* and no further insert is attempted.                                     *)
FatalWhenEveryRowFails ==
    (/\ last.kind = "fail"
     /\ consecutive_failures >= max_retries
     /\ LastSlice \subseteq bad_rows)
        => pc = "fatal"

(* C7: when the retries at a position are used up and at least one row of  *)
(* the failing slice can be inserted on its own, the cursor moves past the *)
(* whole slice and consecutive_failures is reset to 0: the cursor never    *)
(* rests at such a slice with the retries used up.                         *)
FallbackConsumesSlice ==
    ~(/\ pc = "loop"
      /\ last.kind = "fail"
      /\ consecutive_failures >= max_retries
      /\ sent = last.start
      /\ LastSlice \ bad_rows # {})

(* C8: a failed bulk attempt leaves the cursor where it was, so the next   *)
(* attempt starts at the same row; the cursor moves only on a successful   *)
(* batch, by exactly the number of rows taken.                             *)
CursorMovesOnlyOnSuccess ==
    [][/\ last'.kind = "fail" => sent' = last'.start
       /\ last'.kind = "ok" => sent' = last'.start + last'.take
       /\ batches' = batches => sent' = sent
       /\ sent' # sent =>
             (last'.kind = "ok" /\ last'.start = sent /\ batches' = batches + 1)]_vars

\* A bulk attempt failed past row 0, after a batch had been committed.
CursorWitness ==
    /\ last.kind = "fail"
    /\ last.start > 0
    /\ sent = last.start
    /\ batches >= 1

(* C9 as stated: on a bulk failure the batch size becomes the exact        *)
(* product max(batch x 0.8, min_batch), applied twice for a resource       *)
(* error. In tenths (hundredths for two steps) of a row:                   *)
ShrinkIsExactProduct ==
    last.kind = "fail" =>
        IF last.err \in ResourceMessages
        THEN 100 * batch = Max(8 * Max(8 * last.batch, 10 * min_batch), 100 * min_batch)
        ELSE 10 * batch = Max(8 * last.batch, 10 * min_batch)

(* C9 amended: on a bulk failure the batch size becomes                    *)
(* max(int(batch x 0.8), min_batch), the product truncated to a whole      *)
(* number of rows; a resource error (timeout, request size, payload too    *)
(* large) applies that step a second time, any other error exactly once.   *)
ShrinkIsTruncatedProduct ==
    last.kind = "fail" =>
        LET once == Max((8 * last.batch) \div 10, min_batch)
            twice == Max((8 * once) \div 10, min_batch)
        IN  batch = IF last.err \in ResourceMessages THEN twice ELSE once

\* A resource error whose two steps both shrink and both truncate a fraction.
ShrinkWitness ==
    /\ last.kind = "fail"
    /\ last.err \in ResourceMessages
    /\ (8 * last.batch) % 10 # 0
    /\ batch < (8 * last.batch) \div 10
    /\ batch > min_batch

(* C10: after the first successful batch the smoothed throughput is that   *)
(* batch's rows per second (take / elapsed); after every later successful  *)
(* batch of throughput x it is 0.25 x + 0.75 times the previous value; a   *)
(* failure leaves it unchanged.                                            *)
EwmaFollowsFormula ==
    LET e == ewma_rows_per_sec
        p == last.ewma
        x == Frac(last.take * 1000, last.elapsed)
    IN  /\ (last.kind = "ok" /\ batches = 1) => e = x
        /\ (last.kind = "ok" /\ batches > 1) =>
               e = Frac(x[1] * p[2] + 3 * p[1] * x[2], 4 * x[2] * p[2])
        /\ last.kind = "fail" => e = p

\* A third batch whose throughput differs from the smoothed value before it.
EwmaWitness ==
    /\ last.kind = "ok"
    /\ batches >= 3
    /\ last.ewma # RowsPerSec(last.take, last.elapsed)
    /\ ewma_rows_per_sec # last.ewma

-----------------------------------------------------------------------------
(* Classification of the measured duration, as the properties read it *)

\* elapsed strictly below 0.75 x target_seconds
WasFast == 4 * last.elapsed < 3 * target_ms

\* elapsed strictly above 1.5 x target_seconds
WasSlow == 2 * last.elapsed > 3 * target_ms

Resized == last.kind = "ok" /\ ~fixed_batch

(* C11 as stated: in non-fixed mode, after a successful batch faster than  *)
(* fast_threshold the next batch size is the exact product                 *)
(* min(batch x 1.2, max_batch). In tenths of a row:                        *)
GrowthIsExactProduct ==
    (Resized /\ WasFast) => 10 * batch = Min(12 * last.batch, 10 * max_batch)

(* C11 amended: in non-fixed mode, after a successful batch whose elapsed  *)
(* time is strictly below 0.75 x target_seconds the next batch size is     *)
(* min(int(batch x 1.2), max_batch), the product truncated to a whole      *)
(* number of rows.                                                         *)
GrowthIsTruncatedProduct ==
    (Resized /\ WasFast) => batch = Min((12 * last.batch) \div 10, max_batch)

\* A fast batch whose growth truncates a fraction and stays below max_batch.
GrowthWitness ==
    /\ Resized /\ WasFast
    /\ (12 * last.batch) % 10 # 0
    /\ batch > last.batch
    /\ batch < max_batch

(* C12 as stated: in non-fixed mode, after a successful batch slower than  *)
(* slow_threshold the next batch size is the exact product                 *)
(* max(batch x 0.8, min_batch). In tenths of a row:                        *)
SlowShrinkIsExactProduct ==
    (Resized /\ WasSlow) => 10 * batch = Max(8 * last.batch, 10 * min_batch)

(* C12 amended: in non-fixed mode, after a successful batch whose elapsed  *)
(* time is strictly above 1.5 x target_seconds the next batch size is      *)
(* max(int(batch x 0.8), min_batch), the product truncated to a whole      *)
(* number of rows.                                                         *)
SlowShrinkIsTruncatedProduct ==
    (Resized /\ WasSlow) => batch = Max((8 * last.batch) \div 10, min_batch)

\* A slow batch whose shrink truncates a fraction and stays above min_batch.
SlowShrinkWitness ==
    /\ Resized /\ WasSlow
    /\ (8 * last.batch) % 10 # 0
    /\ batch < last.batch
    /\ batch > min_batch

(* C13 as stated: in non-fixed mode, after a successful batch within the   *)
(* target band (both thresholds included) the next batch size is           *)
(* min(batch + max(batch / 20, 1000), max_batch) with the exact quotient.  *)
(* In twentieths of a row:                                                 *)
BandGrowthIsExactQuotient ==
    (Resized /\ ~WasFast /\ ~WasSlow) =>
        20 * batch = Min(20 * last.batch + Max(last.batch, 20 * 1000), 20 * max_batch)

(* C13 amended: in non-fixed mode, after a successful batch whose elapsed  *)
(* time lies within the target band (fast_threshold <= elapsed <=          *)
(* slow_threshold, both included) the next batch size is                   *)
(* min(batch + max(batch // 20, 1000), max_batch), the quotient rounded    *)
(* down to a whole number of rows.                                         *)
BandGrowthIsFlooredQuotient ==
    (Resized /\ ~WasFast /\ ~WasSlow) =>
        batch = Min(last.batch + Max(last.batch \div 20, 1000), max_batch)

\* A batch that took exactly slow_threshold, of a size whose twentieth is
\* above 1000 and not whole, and whose growth stays below max_batch.
BandGrowthWitness ==
    /\ Resized
    /\ 2 * last.elapsed = 3 * target_ms
    /\ last.batch > 20 * 1000
    /\ last.batch % 20 # 0
    /\ batch < max_batch

(* C14: in fixed mode with no failure, every batch takes                   *)
(* min(configured size, remaining rows) rows, so all batches have the      *)
(* configured size except possibly the last, and a finished table took     *)
(* ceil(total_rows / size) batches.                                        *)
FixedBatchesTile ==
    (fixed_batch /\ last_failed_position = -1) =>
        /\ last.kind = "ok" => last.take = Min(Configured, total_rows - last.start)
        /\ pc = "done" => batches = (total_rows + Configured - 1) \div Configured

\* A finished fixed-size table of several batches whose last one is a remainder.
FixedBatchesWitness ==
    /\ fixed_batch /\ last_failed_position = -1
    /\ pc = "done"
    /\ batches >= 2
    /\ last.take < Configured

(* C18: a batch whose column list is empty fails in the statement builder  *)
(* with the empty-mapping error; the step ends as an error outcome, no     *)
(* insert statement reaches the store for it and the cursor is unchanged.  *)
EmptyMappingFailsBeforeStore ==
    (Len(df_columns) = 0 /\ pc # "start") =>
        /\ last.kind # "ok"
        /\ last.kind = "fail" =>
              (last.err = EmptyClauseMessage /\ ~last.submitted /\ sent = last.start)
        /\ Accepted = 0

\* The frame has rows and no column, and an attempt has ended.
EmptyMappingWitness ==
    /\ Len(df_columns) = 0
    /\ total_rows >= 2
    /\ last.kind = "fail"
    /\ consecutive_failures >= 2

-----------------------------------------------------------------------------
(* Reading a delimited text of a statement: a doubled closing character    *)
(* stands for itself, a single one ends the text.                          *)

RECURSIVE ReadDelimited(_, _, _)
ReadDelimited(s, close, acc) ==
    IF Len(s) = 0 THEN [closed |-> FALSE, text |-> acc, rest |-> <<>>]
    ELSE IF s[1] # close THEN ReadDelimited(Tail(s), close, Append(acc, s[1]))
    ELSE IF Len(s) >= 2 /\ s[2] = close
         THEN ReadDelimited(Tail(Tail(s)), close, Append(acc, close))
    ELSE [closed |-> TRUE, text |-> acc, rest |-> Tail(s)]

Occurs(c, s) == \E i \in 1..Len(s) : s[i] = c

(* C15: on the uncompressed path every single quote of the serialized      *)
(* payload is doubled in the string literal, so reading the literal back   *)
(* gives the serialized text exactly, whatever the cell value holds.       *)
LiteralReadsBack ==
    enc.pc \in {"payload", "built"} =>
        LET body == ReadDelimited(SubSeq(enc.literal, 3, Len(enc.literal)), "'", <<>>)
        IN  /\ SubSeq(enc.literal, 1, 2) = <<"N", "'">>
            /\ body.closed
            /\ body.rest = <<>>
            /\ body.text = enc.json_data
            /\ enc.json_data = df_to_json_array(enc.col, enc.cell)

\* A cell that holds a single quote has been embedded.
LiteralWitness ==
    /\ enc.pc = "payload"
    /\ enc.cell = [kind |-> "text", value |-> <<"a", "'">>]
    /\ enc.col = <<"a">>
    /\ Len(enc.literal) = Len(enc.json_data) + 4

(* C16: for every column name, the entry of the WITH clause is well        *)
(* formed: the bracketed identifier reads back as the name, and the quoted *)
(* JSON path reads back as $.name and ends the entry.                      *)
EntryWellFormed ==
    enc.pc = "built" =>
        LET line == enc.with_clause
            id == ReadDelimited(Tail(line), "]", <<>>)
            n == Len(enc.sql_type)
            path == ReadDelimited(SubSeq(id.rest, n + 4, Len(id.rest)), "'", <<>>)
        IN  /\ line[1] = "["
            /\ id.closed
            /\ id.text = enc.col
            /\ SubSeq(id.rest, 1, n + 3) = <<" ">> \o enc.sql_type \o <<" ", "'">>
            /\ path.closed
            /\ path.rest = <<>>
            /\ path.text = <<"$", ".">> \o enc.col

(* C17: a recognized configured type resolves to its fixed type name, an   *)
(* unrecognized configured type to NVARCHAR(MAX); an unconfigured text     *)
(* column to NVARCHAR(n) for its observed length n <= 4000 and to          *)
(* NVARCHAR(MAX) above; any other unconfigured column to NVARCHAR(MAX).    *)
TypeResolution ==
    enc.pc = "built" =>
        enc.sql_type =
            IF enc.col \in DOMAIN enc.dtypes_cfg
            THEN IF Upper(enc.dtypes_cfg[enc.col]) \in DOMAIN OPENJSON_SQL_TYPE_MAP
                 THEN OPENJSON_SQL_TYPE_MAP[Upper(enc.dtypes_cfg[enc.col])]
                 ELSE <<"NVARCHAR(MAX)">>
            ELSE IF enc.col \in DOMAIN enc.max_text_lens
                 THEN IF enc.max_text_lens[enc.col] <= MAX_FIXED_LENGTH
                      THEN <<"NVARCHAR(">> \o Decimal(enc.max_text_lens[enc.col]) \o <<")">>
                      ELSE <<"NVARCHAR(MAX)">>
                 ELSE <<"NVARCHAR(MAX)">>

-----------------------------------------------------------------------------
Tables == IF pipe.phase = "idle" THEN {} ELSE 1..Len(pipe.rows)

(* C19: for every table of the pipeline the create declaration is issued   *)
(* once, and before any insert statement for that table: no insert         *)
(* statement reaches the store for a table that has not been declared, and *)
(* once the inserts begin every table has been declared exactly once.      *)
CreateOnceBeforeInsert ==
    \A t \in Tables :
        /\ pipe.declared[t] <= 1
        /\ pipe.inserted[t] => (pipe.declared[t] = 1 /\ pipe.ddl_committed)
        /\ pipe.phase \in {"insert", "complete"} =>
              (pipe.declared[t] = 1 /\ pipe.ddl_committed)

\* The second of two tables receives an insert statement.
CreateOnceWitness ==
    /\ pipe.phase = "insert"
    /\ Len(pipe.rows) = 2
    /\ pipe.inserted[1]
    /\ pipe.inserted[2]

\* Rows of table t the successful batches of this run have sent.
SentOf(t) ==
    IF t < pipe.tbl THEN pipe.rows[t]
    ELSE IF t = pipe.tbl /\ pipe.calling THEN sent
    ELSE 0

(* C20 as stated: the batches of a table commit in one transaction: if the *)
(* insert phase of a table ends with an error after some batches           *)
(* succeeded, no row of that table is visible in the store.                *)
ProgressDiscardedOnError ==
    \A t \in Tables :
        (pipe.phase = "aborted" /\ pipe.calling /\ t = pipe.tbl) => pipe.visible[t] = 0

(* C20 amended: every successful batch is committed on its own: at any     *)
(* point of the insert phase, and after it ended with an error, the rows   *)
(* of the table visible in the store are those of its successful batches.  *)
BatchesCommitOneByOne ==
    \A t \in Tables :
        pipe.phase \in {"insert", "complete", "aborted"} /\ pipe.ddl_committed
            => pipe.visible[t] = SentOf(t)

\* The insert phase of a table ended with an error after a successful batch.
CommitWitness ==
    /\ pipe.phase = "aborted"
    /\ pipe.calling
    /\ 0 < sent
    /\ sent < total_rows
    /\ pipe.visible[pipe.tbl] = sent

-----------------------------------------------------------------------------
(* C21: a boolean column with no configured type is described as a text of *)
(* size 10 and its entry in the WITH clause has the type NVARCHAR(10),     *)
(* long enough for 'True' and 'False'.                                     *)
BooleanIsText10 ==
    (enc.pc = "built" /\ enc.cell.kind = "boolean" /\ enc.col \notin DOMAIN enc.dtypes_cfg)
        => /\ Get(enc.max_text_lens, enc.col, 0) = 10
           /\ enc.sql_type = <<"NVARCHAR(", "1", "0", ")">>

-----------------------------------------------------------------------------
\* The variables adaptive_batch_insert_with_ewma assigns in its loop.
loop_state == <<batch, sent, ewma_rows_per_sec, fixed_batch>>

(* C22: the loop counts the bulk failures at one starting position: a      *)
(* failure at the position of the previous failure increments the count, a *)
(* failure at another position sets it to 1 and records the position, a    *)
(* success resets it. The count changes at every failure, so every failed  *)
(* attempt changes the state the loop keeps.                               *)
FailureIsCounted ==
    [][ (last'.kind = "fail" /\ consecutive_failures' # consecutive_failures)
            => loop_state' # loop_state ]_vars

-----------------------------------------------------------------------------
(* C23: the committed batches of a table are contiguous slices             *)
(* [start, start + take) whose start is the sum of the takes committed     *)
(* before; they tile the rows below the cursor with no gap and no overlap, *)
(* so a table that ends normally has every row in exactly one committed    *)
(* batch, and 0 <= sent <= total_rows throughout.                          *)
BatchesTileTheTable ==
    pc \in {"start", "loop", "done"} =>
        /\ 0 <= sent /\ sent <= total_rows
        /\ \A r \in 0..(total_rows - 1) : table[r] = (IF r < sent THEN 1 ELSE 0)
        /\ sent = Accepted
        /\ last.kind = "ok" => sent = last.start + last.take
        /\ pc = "done" => \A r \in 0..(total_rows - 1) : table[r] = 1

\* A table finished in several batches, with failed attempts in between.
TileWitness ==
    /\ pc = "done"
    /\ total_rows = MaxTotalRows
    /\ batches = MaxTotalRows
    /\ last_failed_position = total_rows - 1

-----------------------------------------------------------------------------
(* C24: every iteration of the loop attempts at least one row and every    *)
(* successful batch moves the cursor forward, for every starting batch:    *)
(* the batch size is never 0 or less, so a run in which every attempt      *)
(* succeeds ends within total_rows iterations.                             *)
EveryBatchAdvances ==
    /\ pc = "loop" => batch >= 1
    /\ last.kind \in {"ok", "fail"} => last.take >= 1
    /\ last.kind = "ok" => sent > last.start
    /\ last_failed_position = -1 => batches <= total_rows

-----------------------------------------------------------------------------
(* C25: a failure and a slow success never increase the batch size, a fast *)
(* success and a success within the target band never decrease it, for     *)
(* every starting batch, below min_batch and above max_batch included.     *)
ResizeKeepsItsDirection ==
    /\ last.kind = "fail" => batch <= last.batch
    /\ (Resized /\ WasSlow) => batch <= last.batch
    /\ (Resized /\ ~WasSlow) => batch >= last.batch

====
